---- MODULE Spec2Model ----
(***************************************************************************)
(* kvmemdb: an in-memory multi-version key-value store with serializable   *)
(* snapshot isolation.  The model follows the Go sources:                  *)
(*   mvcc.Value, mvcc.MultiValue (Fetch, Append, Compact),                 *)
(*   Database (New, NewTransaction, NewSnapshot, minVersionLocked,         *)
(*   closeTransaction, closeSnapshot), Transaction (Get, Set, Delete,      *)
(*   Scan, Ascend, Descend, Commit, Rollback), Snapshot (Get, Ascend,      *)
(*   Descend, Discard) and commit().                                       *)
(*                                                                         *)
(* Threads: every handle is driven by its own thread.  The database mutex  *)
(* is held by NewTransaction, NewSnapshot and commit(); Get/Set/Delete and *)
(* closeTransaction / closeSnapshot run without it, as in the source.      *)
(*                                                                         *)
(* d.liveTxes is a Go slice: a pointer to a backing array and a length.    *)
(* closeTransaction loads it, slices.DeleteFunc works on the array one     *)
(* element access at a time, and the result is stored back; the steps of   *)
(* other threads come in between.  NewTransaction and minVersionLocked,    *)
(* which read and write the same slice and map under the mutex, are taken  *)
(* one access of d.liveTxes or d.concurrentMap at a time for that reason.  *)
(* Accesses take effect in program order and the load and the store of a   *)
(* slice are each one step.  The loop of an iterator makes one Get per     *)
(* step, and its consumer may leave it.                                    *)
(***************************************************************************)
EXTENDS Integers, Sequences, FiniteSets, TLC

\* ------------------------------------------------------------------ bounds
MaxTx == 2          \* transactions created in one run of Spec
MaxTxSeq == 3       \* transactions created in one run of the narrower specs
MaxSnap == 1        \* snapshots created in one run
MaxOps == 4         \* Get/Set/Delete calls in one run
MaxConflictOps == 5 \* Get/Set/Delete calls in one run of SpecConflict
MaxScanOps == 3     \* Set and iterator calls in one run of SpecScan
MaxVer == 4         \* largest version in the histories given to Compact
MaxHistLen == 3     \* longest history given to Compact

\* math.MaxInt64 in the source; TLC integers are 32 bit wide, so the model
\* uses the largest TLC integer: every version of the model is far below it.
MaxInt64 == 2147483647

Keys == {"k1", "k2"}
Values == {"a", "b"}
TxIds == 1..(IF MaxTx > MaxTxSeq THEN MaxTx ELSE MaxTxSeq)
SnapIds == 1..MaxSnap

\* The nil *string of a buffered delete (Transaction.writes).
NilStr == "<nil>"
\* os.ErrNotExist as the result of a Get.
NotExist == "<ErrNotExist>"
\* No thread holds the mutex.
NoHolder == 0

\* ------------------------------------------------------------ mvcc.Value
\* A Value is [version, data]; a negative version field marks a deleted value.
NewValue(ver) == [version |-> ver, data |-> ""]

IsDeleted(v) == v.version < 0

Version(v) == IF IsDeleted(v) THEN -v.version ELSE v.version

Data(v) == v.data

SetData(v, data) ==
    [version |-> IF IsDeleted(v) THEN -v.version ELSE v.version, data |-> data]

Delete(v) ==
    IF v.version > 0 THEN [version |-> -v.version, data |-> ""] ELSE v

\* ------------------------------------------------------- mvcc.MultiValue
\* A MultiValue is the sequence mv.values (1-based here, 0-based in Go).
NewMultiValue(v) == <<v>>

findValue(v, version) ==
    IF Version(v) = version THEN 0
    ELSE IF Version(v) < version THEN -1 ELSE 1

\* slices.BinarySearchFunc(values, version, findValue): the 0-based insertion
\* index, computed by the same halving loop over [i, j).
RECURSIVE BinarySearchLoop(_, _, _, _)
BinarySearchLoop(values, version, i, j) ==
    IF i < j
    THEN LET h == (i + j) \div 2
         IN  IF findValue(values[h + 1], version) < 0
             THEN BinarySearchLoop(values, version, h + 1, j)
             ELSE BinarySearchLoop(values, version, i, h)
    ELSE i

BinarySearchFunc(values, version) ==
    LET i == BinarySearchLoop(values, version, 0, Len(values))
    IN  [index |-> i,
         ok |-> i < Len(values) /\ findValue(values[i + 1], version) = 0]

\* MultiValue.Fetch: [found, v]; v is meaningful only when found.
Fetch(mv, version) ==
    LET r == BinarySearchFunc(mv, version)
        closest == r.index - 1
    IN  IF r.ok THEN [found |-> TRUE, v |-> mv[r.index + 1]]
        ELSE IF closest >= 0 /\ closest < Len(mv)
             THEN [found |-> TRUE, v |-> mv[closest + 1]]
             ELSE [found |-> FALSE, v |-> NewValue(0)]

\* slices.IsSortedFunc with the comparison a.Version() - b.Version().
IsSortedByVersion(vs) ==
    \A i \in 1..(Len(vs) - 1) : Version(vs[i]) <= Version(vs[i + 1])

\* The panics of Append: "" when Append returns normally.
AppendPanic(mv, v) ==
    IF Len(mv) = 0 THEN ""
    ELSE IF ~IsSortedByVersion(mv)
         THEN "multi-value versions are not in sorted order"
    ELSE IF Version(v) <= Version(mv[Len(mv)])
         THEN "appending version is not larger than existing multi-value versions"
    ELSE ""

\* An Append that puts the new value in front.
PrependValue(mv, v) == <<v>> \o mv

\* Append (AppendValue here: Sequences already defines Append).
AppendValue(mv, v) == mv \o <<v>>

\* The panic of NewValue: "" when it returns normally.
NewValuePanic(ver) ==
    IF ver <= 0 THEN "version value cannot be zero or -ve" ELSE ""

\* slices.DeleteFunc(values, del): the elements that del rejects, in order.
RECURSIVE DeleteOlder(_, _)
DeleteOlder(values, ver) ==
    IF values = <<>> THEN <<>>
    ELSE IF Version(Head(values)) < ver
         THEN DeleteOlder(Tail(values), ver)
         ELSE <<Head(values)>> \o DeleteOlder(Tail(values), ver)

\* A Compact that drops every entry older than minVersion.
CompactBelowMin(mv, minVersion) ==
    IF Len(mv) = 0 THEN <<>>
    ELSE IF Len(mv) = 1
         THEN IF IsDeleted(mv[1]) /\ Version(mv[1]) < minVersion
              THEN <<>> ELSE mv
    ELSE DeleteOlder(mv, minVersion)

\* Compact: the empty sequence stands for the nil result.
Compact(mv, minVersion) ==
    IF Len(mv) = 0 THEN <<>>
    ELSE IF Len(mv) = 1
         THEN IF IsDeleted(mv[1]) /\ Version(mv[1]) < minVersion
              THEN <<>> ELSE mv
    ELSE LET r == BinarySearchFunc(mv, minVersion)
             index == IF r.ok THEN r.index ELSE r.index - 1
         IN  IF index < 0 THEN mv
             ELSE DeleteOlder(mv, Version(mv[index + 1]))

\* ------------------------------------------------------------------ state
VARIABLES
    kvs,               \* Database.kvs: key -> MultiValue, domain = stored keys
    maxCommitVersion,  \* Database.maxCommitVersion
    liveTxes,          \* Database.liveTxes: the slice (array and length)
    heap,              \* the backing arrays of the values liveTxes has had
    liveSnaps,         \* Database.liveSnaps
    concurrentMap,     \* Database.concurrentMap: tx -> peers, domain = its keys
    mu,                \* Database.mu: the transaction whose commit holds it
    txn,               \* the Transaction objects
    snap,              \* the Snapshot objects
    pc,                \* where the thread of each transaction stands
    spc,               \* where the thread of each snapshot stands
    ret,               \* what commit() returned for each transaction
    seen,              \* closeTransaction: the slice it has loaded and where
                       \* its slices.DeleteFunc stands
    cm,                \* commit(): where minVersionLocked stands, minVersion,
                       \* newCommitVersion, keys to apply
    nt,                \* NewTransaction: the transaction it creates and where
                       \* it stands
    fatal,             \* the panic that ended the process, "" if none
    nops,              \* Get/Set/Delete calls made so far
    hist,              \* history: hist[c] = the writes of the commit with version c
    gets,              \* history: the keys each transaction passed to Get
    cver,              \* history: the version each successful write commit got
    iter               \* the iterator of each transaction: the keys still to
                       \* get, the error slot

vars == <<kvs, maxCommitVersion, liveTxes, heap, liveSnaps, concurrentMap, mu,
          txn, snap, pc, spc, ret, seen, cm, nt, fatal, nops, hist, gets,
          cver, iter>>

EmptyMap == [k \in {} |-> NilStr]

\* m with key k set to x (a Go map assignment, syncmap.Store).
MapPut(m, k, x) == [y \in DOMAIN m \cup {k} |-> IF y = k THEN x ELSE m[y]]

\* m without key k (Go delete, syncmap.Delete).
MapDel(m, k) == [y \in DOMAIN m \ {k} |-> m[y]]

NoTx == [db |-> FALSE, snapshotVersion |-> 0, committed |-> FALSE,
         reads |-> EmptyMap, writes |-> EmptyMap]

NoSnap == [db |-> FALSE, snapshotVersion |-> 0]

\* No commit() under way.  While minVersionLocked runs, ph is where it
\* stands, (ptr, len) the slice its loop ranges over, i the index of the
\* loop, tx the element it has read and v the minimum so far.
NoCommit == [minVersion |-> 0, newCommitVersion |-> 0, todo |-> {},
             ph |-> "idle", ptr |-> 0, len |-> 0, i |-> 0, v |-> 0, tx |-> 0]

\* No NewTransaction under way.  While one runs, t is the transaction it
\* creates, ph where it stands, (ptr, len) the value of d.liveTxes it has
\* read, i the index it is at, acc the elements it has read and tx the
\* element of the loop of lines 99-101; live is history: the transactions
\* that were live when it took the mutex.
NoNt == [t |-> 0, ph |-> "idle", ptr |-> 0, len |-> 0, i |-> 0, acc |-> <<>>,
         tx |-> 0, live |-> {}]

\* The nil *Transaction, as an element of a slice or a key of concurrentMap.
Nil == 0

\* A nil slice: no backing array, length 0.
NilSlice == [ptr |-> 0, len |-> 0]

\* No closeTransaction under way.
NoSeen == [ptr |-> 0, len |-> 0, ph |-> "idle", i |-> 0, j |-> 0, v |-> 0]

\* No iteration begun.
NoIter == [st |-> "idle", keys |-> <<>>, err |-> ""]

\* The panic of a field access through a nil pointer.
NilDeref == "invalid memory address or nil pointer dereference"

\* The fatal errors of the Go runtime for unsynchronised accesses to a map.
MapWrites == "concurrent map writes"

MapReadWrite == "concurrent map read and map write"

\* New(): an empty database; no handle exists yet.
Init ==
    /\ kvs = EmptyMap
    /\ maxCommitVersion = 0
    /\ liveTxes = NilSlice
    /\ heap = <<>>
    /\ liveSnaps = {}
    /\ concurrentMap = EmptyMap
    /\ mu = NoHolder
    /\ txn = [t \in TxIds |-> NoTx]
    /\ snap = [s \in SnapIds |-> NoSnap]
    /\ pc = [t \in TxIds |-> "none"]
    /\ spc = [s \in SnapIds |-> "none"]
    /\ ret = [t \in TxIds |-> ""]
    /\ seen = [t \in TxIds |-> NoSeen]
    /\ cm = NoCommit
    /\ nt = NoNt
    /\ fatal = ""
    /\ nops = 0
    /\ hist = <<>>
    /\ gets = [t \in TxIds |-> {}]
    /\ cver = [t \in TxIds |-> 0]
    /\ iter = [t \in TxIds |-> NoIter]

\* d.concurrentMap[tx]: the nil slice when tx is no key of the map.
PeersOf(t) == IF t \in DOMAIN concurrentMap THEN concurrentMap[t] ELSE <<>>

\* The elements of the sequence q, as a set.
ElemSet(q) == {q[n] : n \in 1..Len(q)}

\* cap(s) of the slice s over the arrays h.
Cap(h, s) == IF s.ptr = 0 THEN 0 ELSE Len(h[s.ptr])

\* The elements s[0], ..., s[len(s)-1] of the slice s over the arrays h.
Elems(h, s) == IF s.ptr = 0 THEN <<>> ELSE SubSeq(h[s.ptr], 1, s.len)

\* The elements of d.liveTxes, nil entries included.
liveList == Elems(heap, liveTxes)

\* The transactions in d.liveTxes.
LiveSet == ElemSet(liveList) \ {Nil}

\* u is live: created, and not yet taken out of liveTxes by its own
\* closeTransaction.
Live(u) == pc[u] \in {"open", "minver", "apply", "deferClose", "closing"}

\* The arrays that some thread holds a slice of: d.liveTxes (lt), the slices
\* loaded by the closeTransaction calls (sn), by NewTransaction (n) and by
\* minVersionLocked (c).
Roots(lt, sn, n, c) ==
    ({lt.ptr, n.ptr, c.ptr} \cup {sn[u].ptr : u \in TxIds}) \ {0}

\* The arrays h with every array no slice in roots points to freed.
collect(h, roots) ==
    [a \in 1..Len(h) |-> IF a \in roots THEN h[a] ELSE <<>>]

\* The capacity append gives the new array of a full slice of pointers that
\* grows by one element (runtime.growslice: 1 for the nil slice, else twice
\* the old one).
growCap(c) == IF c = 0 THEN 1 ELSE 2 * c

\* The array that append allocates for a full slice with the elements old:
\* old, then t, then nil up to the new capacity.
grown(old, t) ==
    [n \in 1..growCap(Len(old)) |->
        IF n <= Len(old) THEN old[n] ELSE IF n = Len(old) + 1 THEN t ELSE Nil]

\* The arrays h with the new array arr, and its place.
newArray(h, arr) ==
    LET free == {a \in 1..Len(h) : h[a] = <<>>}
        a == IF free = {} THEN Len(h) + 1
             ELSE CHOOSE x \in free : \A y \in free : x <= y
    IN  [heap |-> IF a = Len(h) + 1 THEN Append(h, arr)
                  ELSE [h EXCEPT ![a] = arr],
         ptr |-> a]

\* The transactions whose closeTransaction is about to delete from
\* d.concurrentMap (line 108) without the mutex, other than t.
mapWriters(t) == {u \in TxIds \ {t} : pc[u] = "stored"}

Min(a, b) == IF a < b THEN a ELSE b

RECURSIVE MinOver(_, _)
MinOver(v, S) ==
    IF S = {} THEN v
    ELSE LET x == CHOOSE y \in S : TRUE IN MinOver(Min(v, x), S \ {x})

\* Database.NewTransaction, lines 87-98: it takes the mutex, builds the next
\* Transaction object and reads d.liveTxes for slices.Clone.  limit bounds
\* the number of transactions of the run.
NewTransaction(limit) ==
    /\ fatal = "" /\ mu = NoHolder
    /\ \E t \in 1..limit :
        /\ pc[t] = "none"
        /\ \A u \in TxIds : u < t => pc[u] # "none"
        /\ txn' = [txn EXCEPT ![t] =
                      [db |-> TRUE, snapshotVersion |-> maxCommitVersion,
                       committed |-> FALSE, reads |-> EmptyMap,
                       writes |-> EmptyMap]]
        /\ mu' = t
        /\ nt' = IF liveTxes.len = 0
                 THEN [NoNt EXCEPT !.t = t, !.ph = "put",
                                   !.live = {u \in TxIds : Live(u)}]
                 ELSE [NoNt EXCEPT !.t = t, !.ph = "clone",
                                   !.ptr = liveTxes.ptr, !.len = liveTxes.len,
                                   !.live = {u \in TxIds : Live(u)}]
        /\ pc' = [pc EXCEPT ![t] = "creating"]
    /\ UNCHANGED <<kvs, maxCommitVersion, liveTxes, heap, liveSnaps,
                   concurrentMap, snap, spc, ret, seen, cm, fatal, nops,
                   hist, gets, cver, iter>>

\* One access of NewTransaction, which holds the mutex, to d.liveTxes, its
\* array or d.concurrentMap: the state of the call (n), the arrays (h), the
\* map (m) and d.liveTxes (lt) after it; done when the call returns.
\*   clone:     slices.Clone reads one element (line 98);
\*   put:       d.concurrentMap[t] is set to the clone (line 98);
\*   range:     the loop of line 99 reads d.liveTxes;
\*   elem:      the loop reads its next element tx;
\*   peerLoad:  d.concurrentMap[tx] is read (line 100);
\*   peerStore: d.concurrentMap[tx] is set to what was read, with t appended;
\*   append:    append reads d.liveTxes (line 102);
\*   write:     within the capacity, append writes t into the array;
\*   copy:      else it reads one element for the new array;
\*   store, storeNew: d.liveTxes is set to the result.
newTransactionStep(n, h, m, lt) ==
    LET same == [nt |-> n, heap |-> h, map |-> m, slice |-> lt,
                 done |-> FALSE]
        next == Append(n.acc, h[n.ptr][n.i + 1])
    IN  IF n.ph = "clone"
        THEN [same EXCEPT !.nt =
                 IF n.i + 1 < n.len
                 THEN [n EXCEPT !.acc = next, !.i = n.i + 1]
                 ELSE [n EXCEPT !.acc = next, !.ph = "put", !.ptr = 0,
                                !.len = 0, !.i = 0]]
        ELSE IF n.ph = "put"
        THEN [same EXCEPT !.map = MapPut(m, n.t, n.acc),
                          !.nt = [n EXCEPT !.ph = "range", !.acc = <<>>]]
        ELSE IF n.ph = "range"
        THEN [same EXCEPT !.nt =
                 IF lt.len = 0 THEN [n EXCEPT !.ph = "append"]
                 ELSE [n EXCEPT !.ph = "elem", !.ptr = lt.ptr,
                                !.len = lt.len, !.i = 0]]
        ELSE IF n.ph = "elem"
        THEN [same EXCEPT !.nt = [n EXCEPT !.ph = "peerLoad",
                                            !.tx = h[n.ptr][n.i + 1]]]
        ELSE IF n.ph = "peerLoad"
        THEN [same EXCEPT !.nt =
                 [n EXCEPT !.ph = "peerStore",
                           !.acc = IF n.tx \in DOMAIN m THEN m[n.tx]
                                   ELSE <<>>]]
        ELSE IF n.ph = "peerStore"
        THEN [same EXCEPT !.map = MapPut(m, n.tx, Append(n.acc, n.t)),
                          !.nt =
                 IF n.i + 1 < n.len
                 THEN [n EXCEPT !.ph = "elem", !.i = n.i + 1, !.acc = <<>>,
                                !.tx = Nil]
                 ELSE [n EXCEPT !.ph = "append", !.ptr = 0, !.len = 0,
                                !.i = 0, !.acc = <<>>, !.tx = Nil]]
        ELSE IF n.ph = "append"
        THEN [same EXCEPT !.nt =
                 [n EXCEPT !.ptr = lt.ptr, !.len = lt.len, !.i = 0,
                           !.acc = <<>>,
                           !.ph = IF lt.len < Cap(h, lt) THEN "write"
                                  ELSE IF lt.len = 0 THEN "storeNew"
                                  ELSE "copy"]]
        ELSE IF n.ph = "write"
        THEN [same EXCEPT !.heap = [h EXCEPT ![n.ptr][n.len + 1] = n.t],
                          !.nt = [n EXCEPT !.ph = "store"]]
        ELSE IF n.ph = "copy"
        THEN [same EXCEPT !.nt =
                 IF n.i + 1 < n.len
                 THEN [n EXCEPT !.acc = next, !.i = n.i + 1]
                 ELSE [n EXCEPT !.acc = next, !.ph = "storeNew"]]
        ELSE IF n.ph = "store"
        THEN [same EXCEPT !.slice = [ptr |-> n.ptr, len |-> n.len + 1],
                          !.nt = NoNt, !.done = TRUE]
        ELSE LET a == newArray(h, grown(n.acc, n.t))
             IN  [same EXCEPT !.heap = a.heap,
                              !.slice = [ptr |-> a.ptr, len |-> n.len + 1],
                              !.nt = NoNt, !.done = TRUE]

\* Database.NewTransaction, lines 98-103, one access at a time.  The
\* closeTransaction calls of other transactions run in between, without the
\* mutex; one that deletes from d.concurrentMap while this call reads or
\* writes the map is an unsynchronised map access: the runtime may end the
\* process.
NewTransactionStep(t) ==
    /\ fatal = ""
    /\ pc[t] = "creating" /\ mu = t /\ nt.t = t
    /\ \/ LET r == newTransactionStep(nt, heap, concurrentMap, liveTxes)
          IN  /\ nt' = r.nt
              /\ concurrentMap' = r.map
              /\ liveTxes' = r.slice
              /\ heap' = collect(r.heap, Roots(r.slice, seen, r.nt, cm))
              /\ mu' = IF r.done THEN NoHolder ELSE mu
              /\ pc' = IF r.done THEN [pc EXCEPT ![t] = "open"] ELSE pc
              /\ UNCHANGED fatal
       \/ /\ nt.ph \in {"put", "peerLoad", "peerStore"}
          /\ mapWriters(t) # {}
          /\ fatal' = IF nt.ph = "peerLoad" THEN MapReadWrite ELSE MapWrites
          /\ UNCHANGED <<nt, concurrentMap, liveTxes, heap, mu, pc>>
    /\ UNCHANGED <<kvs, maxCommitVersion, liveSnaps, txn, snap, spc, ret,
                   seen, cm, nops, hist, gets, cver, iter>>

\* Database.NewSnapshot: the next Snapshot object, under the mutex.
NewSnapshot ==
    /\ fatal = "" /\ mu = NoHolder
    /\ \E s \in SnapIds :
        /\ spc[s] = "none"
        /\ \A u \in SnapIds : u < s => spc[u] # "none"
        /\ snap' = [snap EXCEPT ![s] =
                      [db |-> TRUE, snapshotVersion |-> maxCommitVersion]]
        /\ spc' = [spc EXCEPT ![s] = "open"]
    /\ UNCHANGED <<kvs, maxCommitVersion, liveTxes, heap, liveSnaps,
                   concurrentMap, mu, txn, pc, ret, seen, cm, nt, fatal,
                   nops, hist, gets, cver, iter>>

\* Database.closeSnapshot, called by Snapshot.Discard without the mutex.
closeSnapshot(s) ==
    /\ liveSnaps' = liveSnaps \ {s}
    /\ snap' = [snap EXCEPT ![s].db = FALSE]

\* Snapshot.Discard.
Discard(s) ==
    /\ fatal = ""
    /\ spc[s] = "open"
    /\ snap[s].db
    /\ closeSnapshot(s)
    /\ spc' = [spc EXCEPT ![s] = "closed"]
    /\ UNCHANGED <<kvs, maxCommitVersion, liveTxes, heap, concurrentMap, mu,
                   txn, pc, ret, seen, cm, nt, fatal, nops, hist, gets,
                   cver, iter>>

\* Snapshot.Get for a non-empty key: the data, or NotExist.
SnapshotGet(s, key) ==
    IF key \in DOMAIN kvs
    THEN LET f == Fetch(kvs[key], snap[s].snapshotVersion)
         IN  IF f.found
             THEN IF IsDeleted(f.v) THEN NotExist ELSE Data(f.v)
             ELSE NotExist
    ELSE NotExist

\* Transaction.Get for a non-empty key: the result and the reads map after it.
TransactionGet(t, key) ==
    LET tx == txn[t]
    IN  IF key \in DOMAIN tx.writes
        THEN [val |-> IF tx.writes[key] = NilStr THEN NotExist
                      ELSE tx.writes[key],
              reads |-> tx.reads]
        ELSE IF key \in DOMAIN tx.reads
        THEN [val |-> Data(tx.reads[key]), reads |-> tx.reads]
        ELSE IF key \in DOMAIN kvs
        THEN LET f == Fetch(kvs[key], tx.snapshotVersion)
             IN  IF f.found
                 THEN IF IsDeleted(f.v)
                      THEN [val |-> NotExist, reads |-> tx.reads]
                      ELSE [val |-> Data(f.v),
                            reads |-> MapPut(tx.reads, key, f.v)]
                 ELSE [val |-> NotExist, reads |-> tx.reads]
        ELSE [val |-> NotExist, reads |-> tx.reads]

\* Transaction.Get, called by the owner of an open transaction.  Get, Set
\* and Delete count their calls in nops; every specification bounds them.
Get(t, key) ==
    /\ fatal = ""
    /\ pc[t] = "open" /\ iter[t].st # "next"
    /\ txn' = [txn EXCEPT ![t].reads = TransactionGet(t, key).reads]
    /\ gets' = [gets EXCEPT ![t] = @ \cup {key}]
    /\ nops' = nops + 1
    /\ UNCHANGED <<kvs, maxCommitVersion, liveTxes, heap, liveSnaps,
                   concurrentMap, mu, snap, pc, spc, ret, seen, cm, nt,
                   fatal, hist, cver, iter>>

\* Transaction.Set with a non-empty key and a readable value.
Set(t, key, value) ==
    /\ fatal = ""
    /\ pc[t] = "open" /\ iter[t].st # "next"
    /\ txn' = [txn EXCEPT ![t].writes = MapPut(@, key, value)]
    /\ nops' = nops + 1
    /\ UNCHANGED <<kvs, maxCommitVersion, liveTxes, heap, liveSnaps,
                   concurrentMap, mu, snap, pc, spc, ret, seen, cm, nt,
                   fatal, hist, gets, cver, iter>>

\* Transaction.Delete with a non-empty key.
TxDelete(t, key) ==
    /\ fatal = ""
    /\ pc[t] = "open" /\ iter[t].st # "next"
    /\ txn' = [txn EXCEPT ![t].writes = MapPut(@, key, NilStr)]
    /\ nops' = nops + 1
    /\ UNCHANGED <<kvs, maxCommitVersion, liveTxes, heap, liveSnaps,
                   concurrentMap, mu, snap, pc, spc, ret, seen, cm, nt,
                   fatal, hist, gets, cver, iter>>

\* ----------------------------------------------------------------- commit
\* overlappingKeys(reads, writes).
overlappingKeys(reads, writes) == DOMAIN reads \cap DOMAIN writes

\* An SSI loop that does not skip the committed read-only peers.
RECURSIVE ssiLoopNoSkip(_, _)
ssiLoopNoSkip(t, peers) ==
    IF peers = <<>> THEN ""
    ELSE LET v == Head(peers)
         IN  IF v = Nil THEN "panic"
             ELSE IF ~txn[v].committed THEN ssiLoopNoSkip(t, Tail(peers))
             ELSE IF overlappingKeys(txn[t].reads, txn[v].writes) # {}
                  THEN "ssi"
             ELSE IF overlappingKeys(txn[v].reads, txn[t].writes) # {}
                  THEN "ssi"
             ELSE ssiLoopNoSkip(t, Tail(peers))

\* commit(), lines 44-59, over the peers of tx in their order: "ssi" at the
\* first committed peer with writes that wrote what tx read or read what tx
\* writes, "panic" at a nil peer (v.committed is read through it), "" at the
\* end of the list.
RECURSIVE ssiLoop(_, _)
ssiLoop(t, peers) ==
    IF peers = <<>> THEN ""
    ELSE LET v == Head(peers)
         IN  IF v = Nil THEN "panic"
             ELSE IF ~txn[v].committed THEN ssiLoop(t, Tail(peers))
             ELSE IF DOMAIN txn[v].writes = {} THEN ssiLoop(t, Tail(peers))
             ELSE IF overlappingKeys(txn[t].reads, txn[v].writes) # {}
                  THEN "ssi"
             ELSE IF overlappingKeys(txn[v].reads, txn[t].writes) # {}
                  THEN "ssi"
             ELSE ssiLoop(t, Tail(peers))

ssiConflict(t) == ssiLoop(t, PeersOf(t)) = "ssi"

ssiPanic(t) == ssiLoop(t, PeersOf(t)) = "panic"

\* A ww-check without the case "also created by another tx".
wwConflictOnNoCreate(t, key) ==
    /\ key \in DOMAIN kvs
    /\ LET current == Fetch(kvs[key], MaxInt64)
           initial == Fetch(kvs[key], txn[t].snapshotVersion)
       IN  IF ~current.found /\ ~initial.found THEN FALSE
           ELSE IF ~current.found /\ initial.found THEN TRUE
           ELSE IF current.found /\ ~initial.found THEN FALSE
           ELSE Version(current.v) # Version(initial.v)

\* A ww-check without the case "updated after this tx has begun".
wwConflictOnNoUpdate(t, key) ==
    /\ key \in DOMAIN kvs
    /\ LET current == Fetch(kvs[key], MaxInt64)
           initial == Fetch(kvs[key], txn[t].snapshotVersion)
       IN  IF ~current.found /\ ~initial.found THEN FALSE
           ELSE IF ~current.found /\ initial.found THEN TRUE
           ELSE IF current.found /\ ~initial.found THEN TRUE
           ELSE FALSE

\* commit(), lines 63-84, for one key of tx.writes.
wwConflictOn(t, key) ==
    /\ key \in DOMAIN kvs
    /\ LET current == Fetch(kvs[key], MaxInt64)
           initial == Fetch(kvs[key], txn[t].snapshotVersion)
       IN  IF ~current.found /\ ~initial.found THEN FALSE
           ELSE IF ~current.found /\ initial.found THEN TRUE
           ELSE IF current.found /\ ~initial.found THEN TRUE
           ELSE Version(current.v) # Version(initial.v)

wwConflict(t) == \E key \in DOMAIN txn[t].writes : wwConflictOn(t, key)

\* A commit() without the read-only fast path.
commitCheckNoFastPath(t) ==
    IF ~txn[t].db THEN "invalid"
    ELSE IF txn[t].committed THEN "invalid"
    ELSE IF ssiPanic(t) THEN "panic"
    ELSE IF ssiConflict(t) THEN "ssi"
    ELSE IF wwConflict(t) THEN "ww"
    ELSE "apply"

\* A commit() that looks for rw-dependencies before it takes the read-only
\* fast path.
commitCheckLateFastPath(t) ==
    IF ~txn[t].db THEN "invalid"
    ELSE IF txn[t].committed THEN "invalid"
    ELSE IF ssiPanic(t) THEN "panic"
    ELSE IF ssiConflict(t) THEN "ssi"
    ELSE IF DOMAIN txn[t].writes = {} THEN "ok"
    ELSE IF wwConflict(t) THEN "ww"
    ELSE "apply"

\* What commit() does before it applies anything: "ok" for the read-only
\* fast path, an error, "panic" for a nil peer, or "apply" when the writes
\* are to be applied.
commitCheck(t) ==
    IF ~txn[t].db THEN "invalid"
    ELSE IF txn[t].committed THEN "invalid"
    ELSE IF DOMAIN txn[t].writes = {} THEN "ok"
    ELSE IF ssiPanic(t) THEN "panic"
    ELSE IF ssiConflict(t) THEN "ssi"
    ELSE IF wwConflict(t) THEN "ww"
    ELSE "apply"

\* A commit that numbers its writes after the version it began at.
newCommitVersionFromSnapshot(t) == txn[t].snapshotVersion + 1

\* A commit that reuses the current version.
newCommitVersionSame(t) == maxCommitVersion

\* commit(), line 87: the version of the commit of tx.
newCommitVersion(t) == maxCommitVersion + 1

\* Transaction.Commit, commit() lines 13-84: it takes the mutex and runs the
\* checks; it returns from commit() (releasing the mutex) unless the writes
\* are to be applied.  A nil element met in the peers ends the process; so
\* may the runtime when commit() reads d.concurrentMap while a
\* closeTransaction deletes from it.
CommitBegin(t) ==
    /\ fatal = "" /\ mu = NoHolder
    /\ pc[t] = "open" /\ iter[t].st # "next"
    /\ LET r == commitCheck(t)
       IN  \/ /\ r = "apply"
              /\ mu' = t
              /\ cm' = [NoCommit EXCEPT !.ph = "range"]
              /\ pc' = [pc EXCEPT ![t] = "minver"]
              /\ UNCHANGED <<txn, ret, fatal>>
           \/ /\ r \in {"invalid", "ok", "ssi", "ww"}
              /\ txn' = [txn EXCEPT ![t].committed = (r = "ok")]
              /\ ret' = [ret EXCEPT ![t] = r]
              /\ pc' = [pc EXCEPT ![t] = "deferClose"]
              /\ UNCHANGED <<mu, cm, fatal>>
           \/ /\ r = "panic"
              /\ fatal' = NilDeref
              /\ UNCHANGED <<mu, cm, txn, ret, pc>>
           \/ /\ DOMAIN txn[t].writes # {} /\ mapWriters(t) # {}
              /\ fatal' = MapReadWrite
              /\ UNCHANGED <<mu, cm, txn, ret, pc>>
    /\ UNCHANGED <<kvs, maxCommitVersion, liveTxes, heap, liveSnaps,
                   concurrentMap, snap, spc, seen, nt, nops, hist, gets,
                   cver, iter>>

\* One access of Database.minVersionLocked, called by commit() (line 86)
\* under the mutex, to d.liveTxes, its array or d.concurrentMap: the state
\* of the call after it, the panic it ends in ("" if none), and done when
\* the loop over d.liveTxes is at its end.
\*   range: the loop of line 56 reads d.liveTxes;
\*   elem:  it reads its next element tx and tx.snapshotVersion (line 57): a
\*          nil element is a nil dereference;
\*   peers: it reads d.concurrentMap[tx] and the snapshotVersion of every
\*          peer (lines 58-60): a nil peer is a nil dereference.
minVersionStep(c, h, lt) ==
    LET go == [cm |-> c, panic |-> "", done |-> FALSE]
    IN  IF c.ph = "range"
        THEN IF lt.len = 0
             THEN [go EXCEPT !.cm = [c EXCEPT !.v = MaxInt64], !.done = TRUE]
             ELSE [go EXCEPT !.cm = [c EXCEPT !.ph = "elem", !.ptr = lt.ptr,
                                              !.len = lt.len, !.i = 0,
                                              !.v = MaxInt64]]
        ELSE IF c.ph = "elem"
        THEN LET tx == h[c.ptr][c.i + 1]
             IN  IF tx = Nil THEN [go EXCEPT !.panic = NilDeref]
                 ELSE [go EXCEPT !.cm =
                          [c EXCEPT !.ph = "peers", !.tx = tx,
                                    !.v = Min(c.v, txn[tx].snapshotVersion)]]
        ELSE LET peers == ElemSet(PeersOf(c.tx))
                 v == MinOver(c.v, {txn[x].snapshotVersion :
                                       x \in peers \ {Nil}})
             IN  IF Nil \in peers THEN [go EXCEPT !.panic = NilDeref]
                 ELSE IF c.i + 1 < c.len
                 THEN [go EXCEPT !.cm = [c EXCEPT !.ph = "elem",
                                                  !.i = c.i + 1, !.tx = Nil,
                                                  !.v = v]]
                 ELSE [go EXCEPT !.cm = [c EXCEPT !.v = v], !.done = TRUE]

\* commit(), lines 86-87: minVersionLocked, one access at a time, then the
\* loop over d.liveSnaps and the version of the commit.  The
\* closeTransaction calls of other transactions run in between, without the
\* mutex.
minVersionLocked(t) ==
    /\ fatal = ""
    /\ pc[t] = "minver" /\ mu = t
    /\ LET r == minVersionStep(cm, heap, liveTxes)
       IN  \/ /\ r.panic = ""
              /\ cm' = IF r.done
                       THEN [NoCommit EXCEPT
                               !.minVersion =
                                   MinOver(r.cm.v, {snap[s].snapshotVersion :
                                                       s \in liveSnaps}),
                               !.newCommitVersion = newCommitVersion(t),
                               !.todo = DOMAIN txn[t].writes]
                       ELSE r.cm
              /\ pc' = IF r.done THEN [pc EXCEPT ![t] = "apply"] ELSE pc
              /\ heap' = collect(heap, Roots(liveTxes, seen, nt, cm'))
              /\ UNCHANGED fatal
           \/ /\ r.panic # ""
              /\ fatal' = r.panic
              /\ UNCHANGED <<cm, pc, heap>>
           \/ /\ cm.ph = "peers" /\ mapWriters(t) # {}
              /\ fatal' = MapReadWrite
              /\ UNCHANGED <<cm, pc, heap>>
    /\ UNCHANGED <<kvs, maxCommitVersion, liveTxes, liveSnaps, concurrentMap,
                   mu, txn, snap, spc, ret, seen, nt, nops, hist, gets, cver,
                   iter>>

\* The Value that commit() builds for one buffered write.
writeValue(ver, value) ==
    IF value = NilStr THEN Delete(NewValue(ver)) ELSE SetData(NewValue(ver), value)

\* The panic of one iteration of the apply loop, "" if none.
applyPanic(t, key) ==
    IF NewValuePanic(cm.newCommitVersion) # ""
    THEN NewValuePanic(cm.newCommitVersion)
    ELSE IF key \in DOMAIN kvs
         THEN AppendPanic(kvs[key],
                          writeValue(cm.newCommitVersion, txn[t].writes[key]))
         ELSE ""

\* db.kvs after one iteration of the apply loop (commit(), lines 90-111).
applyWrite(t, key) ==
    LET v == writeValue(cm.newCommitVersion, txn[t].writes[key])
    IN  IF key \notin DOMAIN kvs
        THEN MapPut(kvs, key, NewMultiValue(v))
        ELSE LET nmv == Compact(AppendValue(kvs[key], v), cm.minVersion)
             IN  IF nmv = <<>> THEN MapDel(kvs, key)
                 ELSE MapPut(kvs, key, nmv)

\* One iteration of the apply loop; Go ranges over the map in any order.
CommitApply(t, key) ==
    /\ fatal = ""
    /\ pc[t] = "apply" /\ mu = t
    /\ key \in cm.todo
    /\ IF applyPanic(t, key) # ""
       THEN /\ fatal' = applyPanic(t, key)
            /\ UNCHANGED <<kvs, cm>>
       ELSE /\ kvs' = applyWrite(t, key)
            /\ cm' = [cm EXCEPT !.todo = @ \ {key}]
            /\ UNCHANGED fatal
    /\ UNCHANGED <<maxCommitVersion, liveTxes, heap, liveSnaps, concurrentMap,
                   mu, txn, snap, pc, spc, ret, seen, nt, nops, hist, gets,
                   cver, iter>>

\* commit(), lines 112-115: publish the version, mark tx committed, return
\* and release the mutex.
CommitEnd(t) ==
    /\ fatal = ""
    /\ pc[t] = "apply" /\ mu = t
    /\ cm.todo = {}
    /\ maxCommitVersion' = cm.newCommitVersion
    /\ txn' = [txn EXCEPT ![t].committed = TRUE]
    /\ ret' = [ret EXCEPT ![t] = "ok"]
    /\ mu' = NoHolder
    /\ cm' = NoCommit
    /\ pc' = [pc EXCEPT ![t] = "deferClose"]
    /\ hist' = hist \o <<txn[t].writes>>
    /\ cver' = [cver EXCEPT ![t] = cm.newCommitVersion]
    /\ UNCHANGED <<kvs, liveTxes, heap, liveSnaps, concurrentMap, snap, spc,
                   seen, nt, fatal, nops, gets, iter>>

\* closeTransaction, line 107: the slice d.liveTxes as slices.DeleteFunc gets
\* it, before its first access to an element.
loadSlice ==
    [ptr |-> liveTxes.ptr, len |-> liveTxes.len,
     ph |-> IF liveTxes.len = 0 THEN "done" ELSE "find",
     i |-> 0, j |-> 0, v |-> Nil]

\* closeTransaction, the load of d.liveTxes.  It runs without the mutex, so
\* other threads may change d.liveTxes and its array before it stores the
\* result.
CloseLoad(t) ==
    /\ fatal = ""
    /\ pc[t] = "deferClose"
    /\ seen' = [seen EXCEPT ![t] = loadSlice]
    /\ pc' = [pc EXCEPT ![t] = "closing"]
    /\ UNCHANGED <<kvs, maxCommitVersion, liveTxes, heap, liveSnaps,
                   concurrentMap, mu, txn, snap, spc, ret, cm, nt, fatal,
                   nops, hist, gets, cver, iter>>

\* Transaction.Rollback on an open transaction: the load of closeTransaction.
Rollback(t) ==
    /\ fatal = ""
    /\ pc[t] = "open" /\ iter[t].st # "next"
    /\ txn[t].db
    /\ seen' = [seen EXCEPT ![t] = loadSlice]
    /\ ret' = [ret EXCEPT ![t] = "rollback"]
    /\ pc' = [pc EXCEPT ![t] = "closing"]
    /\ UNCHANGED <<kvs, maxCommitVersion, liveTxes, heap, liveSnaps,
                   concurrentMap, mu, txn, snap, spc, cm, nt, fatal, nops,
                   hist, gets, cver, iter>>

\* Where DeleteFunc goes once element j is done with: to the next element,
\* or to clear(s[i:]) with j as the index to clear.
afterElement(s, i, j) ==
    IF j < s.len THEN [s EXCEPT !.ph = "scan", !.i = i, !.j = j, !.v = Nil]
    ELSE [s EXCEPT !.ph = "clear", !.i = i, !.j = i, !.v = Nil]

\* One access of slices.DeleteFunc(s, v == t) to the array of the slice s it
\* was given: the arrays and the position after it.
\*   find:  IndexFunc reads s[i]; no match to the end returns s as it is;
\*   scan:  the loop reads s[j];
\*   write: the loop copies a kept element down, s[i] = v;
\*   clear: clear(s[i:]) sets one element to nil; the result is s[:i].
deleteFuncStep(h, s, t) ==
    LET arr == h[s.ptr]
    IN  IF s.ph = "find"
        THEN IF arr[s.i + 1] = t
             THEN [heap |-> h, seen |-> afterElement(s, s.i, s.i + 1)]
             ELSE IF s.i + 1 < s.len
                  THEN [heap |-> h, seen |-> [s EXCEPT !.i = s.i + 1]]
                  ELSE [heap |-> h,
                        seen |-> [s EXCEPT !.ph = "done", !.i = s.len]]
        ELSE IF s.ph = "scan"
        THEN IF arr[s.j + 1] # t
             THEN [heap |-> h,
                   seen |-> [s EXCEPT !.ph = "write", !.v = arr[s.j + 1]]]
             ELSE [heap |-> h, seen |-> afterElement(s, s.i, s.j + 1)]
        ELSE IF s.ph = "write"
        THEN [heap |-> [h EXCEPT ![s.ptr][s.i + 1] = s.v],
              seen |-> afterElement(s, s.i + 1, s.j + 1)]
        ELSE [heap |-> [h EXCEPT ![s.ptr][s.j + 1] = Nil],
              seen |-> IF s.j + 1 < s.len THEN [s EXCEPT !.j = s.j + 1]
                       ELSE [s EXCEPT !.ph = "done"]]

\* closeTransaction, line 107: one access of slices.DeleteFunc to the array.
\* The array is the one d.liveTxes had at the load; other threads see every
\* write to it at once.
DeleteFunc(t) ==
    /\ fatal = ""
    /\ pc[t] = "closing"
    /\ seen[t].ph \in {"find", "scan", "write", "clear"}
    /\ heap' = deleteFuncStep(heap, seen[t], t).heap
    /\ seen' = [seen EXCEPT ![t] = deleteFuncStep(heap, seen[t], t).seen]
    /\ UNCHANGED <<kvs, maxCommitVersion, liveTxes, liveSnaps, concurrentMap,
                   mu, txn, snap, pc, spc, ret, cm, nt, fatal, nops, hist,
                   gets, cver, iter>>

\* closeTransaction, line 107, the store: d.liveTxes becomes the slice that
\* DeleteFunc returned, the array it was given with the new length.
CloseStore(t) ==
    /\ fatal = ""
    /\ pc[t] = "closing"
    /\ seen[t].ph = "done"
    /\ liveTxes' = [ptr |-> seen[t].ptr, len |-> seen[t].i]
    /\ seen' = [seen EXCEPT ![t] = NoSeen]
    /\ heap' = collect(heap, Roots(liveTxes', seen', nt, cm))
    /\ pc' = [pc EXCEPT ![t] = "stored"]
    /\ UNCHANGED <<kvs, maxCommitVersion, liveSnaps, concurrentMap, mu, txn,
                   snap, spc, ret, cm, nt, fatal, nops, hist, gets, cver,
                   iter>>

\* closeTransaction, lines 108-109: it deletes t's entry of concurrentMap and
\* clears t.db; Commit or Rollback returns.  The delete is made without the
\* mutex: when another closeTransaction deletes at the same time the runtime
\* may end the process.
CloseEnd(t) ==
    /\ fatal = ""
    /\ pc[t] = "stored"
    /\ \/ /\ concurrentMap' = MapDel(concurrentMap, t)
          /\ txn' = [txn EXCEPT ![t].db = FALSE]
          /\ pc' = [pc EXCEPT ![t] = "closed"]
          /\ UNCHANGED fatal
       \/ /\ mapWriters(t) # {}
          /\ fatal' = MapWrites
          /\ UNCHANGED <<concurrentMap, txn, pc>>
    /\ UNCHANGED <<kvs, maxCommitVersion, liveTxes, heap, liveSnaps, mu, snap,
                   spc, ret, seen, cm, nt, nops, hist, gets, cver, iter>>

\* -------------------------------------------------------------- iteration
\* The strings used as keys and range bounds, in Go's byte order.
StrOrder == <<"", "k1", "k2", "k3">>

Rank(s) == CHOOSE i \in 1..Len(StrOrder) : StrOrder[i] = s

\* a < b on Go strings.
StrLess(a, b) == Rank(a) < Rank(b)

\* The begin and end arguments of Ascend and Descend.
RangeBounds == {"", "k1", "k2", "k3"}

\* The predicate that keys() passes to slices.DeleteFunc: k is dropped.
outOfRange(k, begin, end) ==
    IF begin = "" /\ end = "" THEN FALSE
    ELSE IF begin # "" /\ end = "" THEN StrLess(k, begin)
    ELSE IF begin = "" /\ end # "" THEN ~StrLess(k, end)
    ELSE StrLess(k, begin) \/ ~StrLess(k, end)

\* Snapshot.keys: the keys of db.kvs in [begin, end), in no order.
SnapshotKeys(s, begin, end) ==
    {k \in DOMAIN kvs : ~outOfRange(k, begin, end)}

\* Transaction.keys: the keys of t.reads, t.writes and db.kvs in [begin, end).
TransactionKeys(t, begin, end) ==
    {k \in DOMAIN txn[t].reads \cup DOMAIN txn[t].writes \cup DOMAIN kvs :
        ~outOfRange(k, begin, end)}

\* sort.Strings.
RECURSIVE SortStrings(_)
SortStrings(S) ==
    IF S = {} THEN <<>>
    ELSE LET m == CHOOSE x \in S : \A y \in S : ~StrLess(y, x)
         IN  <<m>> \o SortStrings(S \ {m})

\* slices.Reverse.
RECURSIVE Reverse(_)
Reverse(q) ==
    IF q = <<>> THEN <<>> ELSE Reverse(Tail(q)) \o <<Head(q)>>

\* A range test that also refuses begin = end.
invalidRangeOrEqual(begin, end) ==
    begin # "" /\ end # "" /\ ~StrLess(begin, end)

\* The first test of Ascend and Descend: begin > end, both non-empty.
invalidRange(begin, end) ==
    begin # "" /\ end # "" /\ StrLess(end, begin)

\* The loop of Snapshot.Ascend / Descend over the sorted keys, run to its
\* end by the consumer: the pairs yielded and the error slot ("" if unset).
\* Any error of Get, ErrNotExist included, goes to the slot and ends the loop.
RECURSIVE SnapshotIterate(_, _)
SnapshotIterate(s, keys) ==
    IF keys = <<>> THEN [yield |-> <<>>, err |-> ""]
    ELSE LET value == SnapshotGet(s, Head(keys))
         IN  IF value = NotExist
             THEN [yield |-> <<>>, err |-> NotExist]
             ELSE LET rest == SnapshotIterate(s, Tail(keys))
                  IN  [yield |-> <<<<Head(keys), value>>>> \o rest.yield,
                       err |-> rest.err]

SnapshotAscend(s, begin, end) ==
    IF invalidRange(begin, end) THEN [yield |-> <<>>, err |-> "invalid"]
    ELSE SnapshotIterate(s, SortStrings(SnapshotKeys(s, begin, end)))

SnapshotDescend(s, begin, end) ==
    IF invalidRange(begin, end) THEN [yield |-> <<>>, err |-> "invalid"]
    ELSE SnapshotIterate(s, Reverse(SortStrings(SnapshotKeys(s, begin, end))))

\* The loop of Transaction.Ascend / Descend over the sorted keys, run to its
\* end: the pairs yielded, the error slot, and t.reads after the Gets.  A Get
\* that returns ErrNotExist is skipped.
RECURSIVE TransactionIterate(_, _)
TransactionIterate(t, keys) ==
    IF keys = <<>>
    THEN [yield |-> <<>>, err |-> "", reads |-> txn[t].reads]
    ELSE LET key == Head(keys)
             g == TransactionGet(t, key)
             rest == TransactionIterate(t, Tail(keys))
         IN  IF g.val = NotExist THEN rest
             ELSE [yield |-> <<<<key, g.val>>>> \o rest.yield,
                   err |-> rest.err,
                   reads |-> IF key \in DOMAIN g.reads
                             THEN MapPut(rest.reads, key, g.reads[key])
                             ELSE rest.reads]

TransactionAscend(t, begin, end) ==
    IF invalidRange(begin, end)
    THEN [yield |-> <<>>, err |-> "invalid", reads |-> txn[t].reads]
    ELSE TransactionIterate(t, SortStrings(TransactionKeys(t, begin, end)))

TransactionDescend(t, begin, end) ==
    IF invalidRange(begin, end)
    THEN [yield |-> <<>>, err |-> "invalid", reads |-> txn[t].reads]
    ELSE TransactionIterate(t,
             Reverse(SortStrings(TransactionKeys(t, begin, end))))

\* The orders in which Go may range over a map with the keys S.
Orders(S) ==
    {q \in [1..Cardinality(S) -> S] :
        \A m \in 1..Cardinality(S), n \in 1..Cardinality(S) :
            q[m] = q[n] => m = n}

\* The iterator of t as the range test and keys() leave it: refused, or with
\* the keys it will pass to Get.
beginIterate(t, begin, end, keys) ==
    IF invalidRange(begin, end)
    THEN [st |-> "end", keys |-> <<>>, err |-> "invalid"]
    ELSE [st |-> IF keys = <<>> THEN "end" ELSE "next", keys |-> keys,
          err |-> ""]

\* The start of a loop over t.Ascend(begin, end) by the owner of an open
\* transaction: the range test, keys() and the sort.
Ascend(t, begin, end) ==
    /\ fatal = "" /\ nops < MaxOps
    /\ pc[t] = "open" /\ iter[t].st # "next"
    /\ iter' = [iter EXCEPT ![t] =
                   beginIterate(t, begin, end,
                       SortStrings(TransactionKeys(t, begin, end)))]
    /\ nops' = nops + 1
    /\ UNCHANGED <<kvs, maxCommitVersion, liveTxes, heap, liveSnaps,
                   concurrentMap, mu, txn, snap, pc, spc, ret, seen, cm,
                   nt, fatal, hist, gets, cver>>

\* The start of a loop over t.Descend(begin, end).
Descend(t, begin, end) ==
    /\ fatal = "" /\ nops < MaxOps
    /\ pc[t] = "open" /\ iter[t].st # "next"
    /\ iter' = [iter EXCEPT ![t] =
                   beginIterate(t, begin, end,
                       Reverse(SortStrings(TransactionKeys(t, begin, end))))]
    /\ nops' = nops + 1
    /\ UNCHANGED <<kvs, maxCommitVersion, liveTxes, heap, liveSnaps,
                   concurrentMap, mu, txn, snap, pc, spc, ret, seen, cm,
                   nt, fatal, hist, gets, cver>>

\* The start of a loop over t.Scan(): keys("", "") in the order of the maps,
\* which is any order.
Scan(t) ==
    /\ fatal = "" /\ nops < MaxOps
    /\ pc[t] = "open" /\ iter[t].st # "next"
    /\ \E q \in Orders(TransactionKeys(t, "", "")) :
          iter' = [iter EXCEPT ![t] = beginIterate(t, "", "", q)]
    /\ nops' = nops + 1
    /\ UNCHANGED <<kvs, maxCommitVersion, liveTxes, heap, liveSnaps,
                   concurrentMap, mu, txn, snap, pc, spc, ret, seen, cm,
                   nt, fatal, hist, gets, cver>>

\* One turn of the loop of Ascend, Descend or Scan: t.Get of the next key,
\* which fills t.reads; ErrNotExist skips the key, else the pair is yielded
\* and the body of the consumer's loop runs.  After the last key the
\* iteration is at its end.  When the body of the loop has ended the
\* transaction, Get finds the key in t.writes or t.reads or reads t.db.kvs
\* through nil.
IterateNext(t) ==
    /\ fatal = ""
    /\ pc[t] \in {"open", "closed"} /\ iter[t].st \in {"next", "yielded"}
    /\ LET key == Head(iter[t].keys)
           rest == Tail(iter[t].keys)
           g == TransactionGet(t, key)
       IN  IF /\ pc[t] = "closed"
              /\ key \notin DOMAIN txn[t].writes \cup DOMAIN txn[t].reads
           THEN /\ fatal' = NilDeref
                /\ UNCHANGED <<txn, gets, iter>>
           ELSE /\ txn' = [txn EXCEPT ![t].reads = g.reads]
                /\ gets' = [gets EXCEPT ![t] = @ \cup {key}]
                /\ iter' = [iter EXCEPT ![t] =
                      IF g.val = NotExist
                      THEN [@ EXCEPT !.keys = rest,
                                     !.st = IF rest = <<>> THEN "end"
                                            ELSE "next"]
                      ELSE [@ EXCEPT !.keys = rest,
                                     !.st = IF rest = <<>> THEN "end"
                                            ELSE "yielded"]]
                /\ UNCHANGED fatal
    /\ UNCHANGED <<kvs, maxCommitVersion, liveTxes, heap, liveSnaps,
                   concurrentMap, mu, snap, pc, spc, ret, seen, cm, nt, nops,
                   hist, cver>>

\* The consumer leaves its loop after a pair: yield returns false and the
\* keys that are left are never passed to Get.
IterateBreak(t) ==
    /\ fatal = ""
    /\ pc[t] \in {"open", "closed"} /\ iter[t].st = "yielded"
    /\ iter' = [iter EXCEPT ![t] = [@ EXCEPT !.st = "stopped", !.keys = <<>>]]
    /\ UNCHANGED <<kvs, maxCommitVersion, liveTxes, heap, liveSnaps,
                   concurrentMap, mu, txn, snap, pc, spc, ret, seen, cm, nt,
                   fatal, nops, hist, gets, cver>>

\* ------------------------------------------- calls on an ended transaction
\* closeTransaction has set t.db to nil.  Set, Delete and Get do not look at
\* t.db before they use the maps of t; Get and keys() dereference it.

\* Transaction.Set after Commit or Rollback has returned for t.
SetAfterEnd(t, key, value) ==
    /\ fatal = "" /\ nops < MaxOps
    /\ pc[t] = "closed"
    /\ txn' = [txn EXCEPT ![t].writes = MapPut(@, key, value)]
    /\ nops' = nops + 1
    /\ UNCHANGED <<kvs, maxCommitVersion, liveTxes, heap, liveSnaps,
                   concurrentMap, mu, snap, pc, spc, ret, seen, cm, nt,
                   fatal, hist, gets, cver, iter>>

\* Transaction.Delete after Commit or Rollback has returned for t.
DeleteAfterEnd(t, key) ==
    /\ fatal = "" /\ nops < MaxOps
    /\ pc[t] = "closed"
    /\ txn' = [txn EXCEPT ![t].writes = MapPut(@, key, NilStr)]
    /\ nops' = nops + 1
    /\ UNCHANGED <<kvs, maxCommitVersion, liveTxes, heap, liveSnaps,
                   concurrentMap, mu, snap, pc, spc, ret, seen, cm, nt,
                   fatal, hist, gets, cver, iter>>

\* Transaction.Get after Commit or Rollback has returned for t: answered from
\* t.writes or t.reads if the key is there, else t.db.kvs is read through nil.
GetAfterEnd(t, key) ==
    /\ fatal = "" /\ nops < MaxOps
    /\ pc[t] = "closed"
    /\ IF key \in DOMAIN txn[t].writes \cup DOMAIN txn[t].reads
       THEN UNCHANGED fatal
       ELSE fatal' = NilDeref
    /\ gets' = [gets EXCEPT ![t] = @ \cup {key}]
    /\ nops' = nops + 1
    /\ UNCHANGED <<kvs, maxCommitVersion, liveTxes, heap, liveSnaps,
                   concurrentMap, mu, txn, snap, pc, spc, ret, seen, cm,
                   nt, hist, cver, iter>>

\* Transaction.Ascend or Descend after Commit or Rollback has returned for t:
\* the range test comes first and puts os.ErrInvalid into the error slot,
\* then keys() reads t.db.kvs through nil.
IterateAfterEnd(t, begin, end) ==
    /\ fatal = "" /\ nops < MaxOps
    /\ pc[t] = "closed" /\ iter[t].st # "next"
    /\ IF invalidRange(begin, end)
       THEN /\ iter' = [iter EXCEPT ![t] = beginIterate(t, begin, end, <<>>)]
            /\ UNCHANGED fatal
       ELSE /\ fatal' = NilDeref
            /\ UNCHANGED iter
    /\ nops' = nops + 1
    /\ UNCHANGED <<kvs, maxCommitVersion, liveTxes, heap, liveSnaps,
                   concurrentMap, mu, txn, snap, pc, spc, ret, seen, cm, nt,
                   hist, gets, cver>>

AscendAfterEnd(t, begin, end) == IterateAfterEnd(t, begin, end)

DescendAfterEnd(t, begin, end) == IterateAfterEnd(t, begin, end)

\* Transaction.Scan after Commit or Rollback has returned for t: keys() reads
\* t.db.kvs through nil.
ScanAfterEnd(t) ==
    /\ fatal = "" /\ nops < MaxOps
    /\ pc[t] = "closed" /\ iter[t].st # "next"
    /\ fatal' = NilDeref
    /\ nops' = nops + 1
    /\ UNCHANGED <<kvs, maxCommitVersion, liveTxes, heap, liveSnaps,
                   concurrentMap, mu, txn, snap, pc, spc, ret, seen, cm, nt,
                   hist, gets, cver, iter>>

\* Transaction.Commit after Commit or Rollback has returned for t: t.db is
\* nil, the call returns os.ErrInvalid.
CommitAfterEnd(t) ==
    /\ fatal = ""
    /\ pc[t] = "closed"
    /\ ret' = [ret EXCEPT ![t] = "invalid"]
    /\ UNCHANGED <<kvs, maxCommitVersion, liveTxes, heap, liveSnaps,
                   concurrentMap, mu, txn, snap, pc, spc, seen, cm, nt,
                   fatal, nops, hist, gets, cver, iter>>

\* Transaction.Rollback after Commit or Rollback has returned for t.
RollbackAfterEnd(t) ==
    /\ fatal = ""
    /\ pc[t] = "closed"
    /\ ret' = [ret EXCEPT ![t] = "invalid"]
    /\ UNCHANGED <<kvs, maxCommitVersion, liveTxes, heap, liveSnaps,
                   concurrentMap, mu, txn, snap, pc, spc, seen, cm, nt,
                   fatal, nops, hist, gets, cver, iter>>

\* The runs of up to MaxTx concurrent transactions that get, set and delete
\* keys, commit and roll back.
Next ==
    \/ NewTransaction(MaxTx)
    \/ \E t \in TxIds, key \in Keys : nops < MaxOps /\ Get(t, key)
    \/ \E t \in TxIds, key \in Keys, value \in Values :
          nops < MaxOps /\ Set(t, key, value)
    \/ \E t \in TxIds, key \in Keys : nops < MaxOps /\ TxDelete(t, key)
    \/ \E t \in TxIds : NewTransactionStep(t)
    \/ \E t \in TxIds : CommitBegin(t)
    \/ \E t \in TxIds : minVersionLocked(t)
    \/ \E t \in TxIds, key \in Keys : CommitApply(t, key)
    \/ \E t \in TxIds : CommitEnd(t)
    \/ \E t \in TxIds : CloseLoad(t)
    \/ \E t \in TxIds : Rollback(t)
    \/ \E t \in TxIds : DeleteFunc(t)
    \/ \E t \in TxIds : CloseStore(t)
    \/ \E t \in TxIds : CloseEnd(t)

Spec == Init /\ [][Next]_vars

\* One thread: a transaction is created only when every earlier one has
\* returned from Commit or Rollback.
NewTransactionSerial(limit) ==
    /\ \A u \in TxIds : pc[u] \in {"none", "closed"}
    /\ NewTransaction(limit)

\* The runs of one thread that uses up to MaxTxSeq transactions one after the
\* other, and snapshots.
NextSerial ==
    \/ NewTransactionSerial(MaxTxSeq)
    \/ NewSnapshot
    \/ \E s \in SnapIds : Discard(s)
    \/ \E t \in TxIds, key \in Keys : nops < MaxOps /\ Get(t, key)
    \/ \E t \in TxIds, key \in Keys, value \in Values :
          nops < MaxOps /\ Set(t, key, value)
    \/ \E t \in TxIds, key \in Keys : nops < MaxOps /\ TxDelete(t, key)
    \/ \E t \in TxIds : NewTransactionStep(t)
    \/ \E t \in TxIds : CommitBegin(t)
    \/ \E t \in TxIds : minVersionLocked(t)
    \/ \E t \in TxIds, key \in Keys : CommitApply(t, key)
    \/ \E t \in TxIds : CommitEnd(t)
    \/ \E t \in TxIds : CloseLoad(t)
    \/ \E t \in TxIds : Rollback(t)
    \/ \E t \in TxIds : DeleteFunc(t)
    \/ \E t \in TxIds : CloseStore(t)
    \/ \E t \in TxIds : CloseEnd(t)

SpecSerial == Init /\ [][NextSerial]_vars

\* The runs of up to MaxTxSeq concurrent transactions that set one key and
\* commit, without snapshots.
NextWriters ==
    \/ NewTransaction(MaxTxSeq)
    \/ \E t \in TxIds : nops < MaxOps /\ Set(t, "k1", "a")
    \/ \E t \in TxIds : NewTransactionStep(t)
    \/ \E t \in TxIds : CommitBegin(t)
    \/ \E t \in TxIds : minVersionLocked(t)
    \/ \E t \in TxIds, key \in Keys : CommitApply(t, key)
    \/ \E t \in TxIds : CommitEnd(t)
    \/ \E t \in TxIds : CloseLoad(t)
    \/ \E t \in TxIds : DeleteFunc(t)
    \/ \E t \in TxIds : CloseStore(t)
    \/ \E t \in TxIds : CloseEnd(t)

SpecWriters == Init /\ [][NextWriters]_vars

\* Two threads: a transaction is created only when at most one other has not
\* yet returned from Commit.
NewTransactionPair(limit) ==
    /\ Cardinality({u \in TxIds : pc[u] \notin {"none", "closed"}}) < 2
    /\ NewTransaction(limit)

\* The runs of two threads that use up to MaxTxSeq transactions, each thread
\* one after the other, to get the first key, set keys and commit.
NextPair ==
    \/ NewTransactionPair(MaxTxSeq)
    \/ \E t \in TxIds : nops < MaxOps /\ Get(t, "k1")
    \/ \E t \in TxIds, key \in Keys : nops < MaxOps /\ Set(t, key, "a")
    \/ \E t \in TxIds : NewTransactionStep(t)
    \/ \E t \in TxIds : CommitBegin(t)
    \/ \E t \in TxIds : minVersionLocked(t)
    \/ \E t \in TxIds, key \in Keys : CommitApply(t, key)
    \/ \E t \in TxIds : CommitEnd(t)
    \/ \E t \in TxIds : CloseLoad(t)
    \/ \E t \in TxIds : DeleteFunc(t)
    \/ \E t \in TxIds : CloseStore(t)
    \/ \E t \in TxIds : CloseEnd(t)

SpecPair == Init /\ [][NextPair]_vars

\* The runs of two threads that use up to MaxTxSeq transactions, each thread
\* one after the other, to get, set and delete the first key and commit, with
\* up to MaxConflictOps calls: a transaction can commit the key and end before
\* two concurrent transactions read and write it.
NextConflict ==
    \/ NewTransactionPair(MaxTxSeq)
    \/ \E t \in TxIds : nops < MaxConflictOps /\ Get(t, "k1")
    \/ \E t \in TxIds : nops < MaxConflictOps /\ Set(t, "k1", "a")
    \/ \E t \in TxIds : nops < MaxConflictOps /\ TxDelete(t, "k1")
    \/ \E t \in TxIds : NewTransactionStep(t)
    \/ \E t \in TxIds : CommitBegin(t)
    \/ \E t \in TxIds : minVersionLocked(t)
    \/ \E t \in TxIds, key \in Keys : CommitApply(t, key)
    \/ \E t \in TxIds : CommitEnd(t)
    \/ \E t \in TxIds : CloseLoad(t)
    \/ \E t \in TxIds : DeleteFunc(t)
    \/ \E t \in TxIds : CloseStore(t)
    \/ \E t \in TxIds : CloseEnd(t)

SpecConflict == Init /\ [][NextConflict]_vars

\* The runs of up to MaxTx concurrent transactions that buffer writes, iterate
\* and commit, and snapshots, with up to MaxScanOps Set and iterator calls.
NextScan ==
    \/ NewTransaction(MaxTx)
    \/ NewSnapshot
    \/ \E t \in TxIds, key \in Keys : nops < MaxScanOps /\ Set(t, key, "a")
    \/ \E t \in TxIds, b \in RangeBounds, e \in RangeBounds :
          nops < MaxScanOps /\ Ascend(t, b, e)
    \/ \E t \in TxIds, b \in RangeBounds, e \in RangeBounds :
          nops < MaxScanOps /\ Descend(t, b, e)
    \/ \E t \in TxIds : nops < MaxScanOps /\ Scan(t)
    \/ \E t \in TxIds : IterateNext(t)
    \/ \E t \in TxIds : IterateBreak(t)
    \/ \E t \in TxIds : NewTransactionStep(t)
    \/ \E t \in TxIds : CommitBegin(t)
    \/ \E t \in TxIds : minVersionLocked(t)
    \/ \E t \in TxIds, key \in Keys : CommitApply(t, key)
    \/ \E t \in TxIds : CommitEnd(t)
    \/ \E t \in TxIds : CloseLoad(t)
    \/ \E t \in TxIds : DeleteFunc(t)
    \/ \E t \in TxIds : CloseStore(t)
    \/ \E t \in TxIds : CloseEnd(t)

SpecScan == Init /\ [][NextScan]_vars

\* The runs of one thread that uses up to MaxTx transactions one after the
\* other and goes on calling them after Commit or Rollback has returned.
NextTerminal ==
    \/ NewTransactionSerial(MaxTx)
    \/ \E t \in TxIds, key \in Keys : nops < MaxOps /\ Get(t, key)
    \/ \E t \in TxIds, key \in Keys, value \in Values :
          nops < MaxOps /\ Set(t, key, value)
    \/ \E t \in TxIds, key \in Keys : nops < MaxOps /\ TxDelete(t, key)
    \/ \E t \in TxIds : NewTransactionStep(t)
    \/ \E t \in TxIds : CommitBegin(t)
    \/ \E t \in TxIds : minVersionLocked(t)
    \/ \E t \in TxIds, key \in Keys : CommitApply(t, key)
    \/ \E t \in TxIds : CommitEnd(t)
    \/ \E t \in TxIds : CloseLoad(t)
    \/ \E t \in TxIds : Rollback(t)
    \/ \E t \in TxIds : DeleteFunc(t)
    \/ \E t \in TxIds : CloseStore(t)
    \/ \E t \in TxIds : CloseEnd(t)
    \/ \E t \in TxIds, key \in Keys : GetAfterEnd(t, key)
    \/ \E t \in TxIds, key \in Keys, value \in Values : SetAfterEnd(t, key, value)
    \/ \E t \in TxIds, key \in Keys : DeleteAfterEnd(t, key)
    \/ \E t \in TxIds, b \in RangeBounds, e \in RangeBounds :
          AscendAfterEnd(t, b, e)
    \/ \E t \in TxIds, b \in RangeBounds, e \in RangeBounds :
          DescendAfterEnd(t, b, e)
    \/ \E t \in TxIds : ScanAfterEnd(t)
    \/ \E t \in TxIds : CommitAfterEnd(t)
    \/ \E t \in TxIds : RollbackAfterEnd(t)

SpecTerminal == Init /\ [][NextTerminal]_vars

\* ------------------------------------------------------ Compact on its own
\* The Values that commit() builds: a payload, or a tombstone.
HistoryEntries ==
    {[version |-> v, data |-> d] : v \in 1..MaxVer, d \in Values}
    \cup {Delete(NewValue(v)) : v \in 1..MaxVer}

\* The histories of up to MaxHistLen entries with strictly increasing
\* versions.
Histories ==
    UNION {{h \in [1..n -> HistoryEntries] :
               \A i \in 1..(n - 1) : Version(h[i]) < Version(h[i + 1])} :
           n \in 1..MaxHistLen}

\* The minVersion arguments: below, between and above the versions, and the
\* value minVersionLocked returns when nothing is live.
MinVersions == 0..(MaxVer + 1) \cup {MaxInt64}

\* The arguments of one call of Compact: kvs holds the history mv under a
\* key, cm.minVersion is minVersion and cm.todo names the key whose history
\* is the argument.  Nothing else of the database is in use.
InitCompact ==
    /\ \E key \in Keys, h \in Histories, m \in MinVersions :
          /\ kvs = MapPut(EmptyMap, key, h)
          /\ cm = [NoCommit EXCEPT !.minVersion = m, !.todo = {key}]
    /\ maxCommitVersion = MaxVer
    /\ liveTxes = NilSlice
    /\ heap = <<>>
    /\ liveSnaps = {}
    /\ concurrentMap = EmptyMap
    /\ mu = NoHolder
    /\ txn = [t \in TxIds |-> NoTx]
    /\ snap = [s \in SnapIds |-> NoSnap]
    /\ pc = [t \in TxIds |-> "none"]
    /\ spc = [s \in SnapIds |-> "none"]
    /\ ret = [t \in TxIds |-> ""]
    /\ seen = [t \in TxIds |-> NoSeen]
    /\ nt = NoNt
    /\ fatal = ""
    /\ nops = 0
    /\ hist = <<>>
    /\ gets = [t \in TxIds |-> {}]
    /\ cver = [t \in TxIds |-> 0]
    /\ iter = [t \in TxIds |-> NoIter]

\* mvcc.Compact(mv, minVersion) applied to the history held under key: the
\* result takes the place of the argument, a nil result being shown as no
\* history under key.
CompactHistory(key) ==
    /\ fatal = "" /\ mu = NoHolder
    /\ key \in cm.todo /\ key \in DOMAIN kvs
    /\ LET nmv == Compact(kvs[key], cm.minVersion)
       IN  kvs' = IF nmv = <<>> THEN MapDel(kvs, key)
                  ELSE MapPut(kvs, key, nmv)
    /\ cm' = [cm EXCEPT !.todo = @ \ {key}]
    /\ UNCHANGED <<maxCommitVersion, liveTxes, heap, liveSnaps, concurrentMap,
                   mu, txn, snap, pc, spc, ret, seen, nt, fatal, nops,
                   hist, gets, cver, iter>>

NextCompact == \E key \in Keys : CompactHistory(key)

SpecCompact == InitCompact /\ [][NextCompact]_vars

\* ------------------------------------------------------- claim vocabulary
\* The versions <= ver whose commit wrote key.
WritersOf(key, ver) ==
    {c \in 1..Len(hist) : c <= ver /\ key \in DOMAIN hist[c]}

Max(S) == CHOOSE x \in S : \A y \in S : y <= x

\* What a read of key at snapshot version ver must return: the write of the
\* last commit with a version <= ver that wrote key.
Expected(key, ver) ==
    IF WritersOf(key, ver) = {} THEN NotExist
    ELSE LET w == hist[Max(WritersOf(key, ver))][key]
         IN  IF w = NilStr THEN NotExist ELSE w

\* t committed writes with success.
Succeeded(t) == cver[t] > 0

\* t and u were open at the same time: each was created before the commit of
\* the other was published.
Concurrent(t, u) ==
    /\ txn[t].snapshotVersion < cver[u]
    /\ txn[u].snapshotVersion < cver[t]

\* C1: a snapshot that has not been discarded reads, for every key, the write
\* of the last commit with a version <= its snapshot version (NotExist if
\* there is none or it is a delete), whatever was committed later.
C1_SnapshotStable ==
    \A s \in SnapIds, key \in Keys :
        spc[s] = "open"
           => SnapshotGet(s, key) = Expected(key, snap[s].snapshotVersion)

\* C2: an open transaction reads its buffered write for a key if it has one
\* (NotExist for a buffered delete), and otherwise the write of the last
\* commit with a version <= its snapshot version, whatever was committed and
\* compacted since it began.
C2_TransactionGet ==
    \A t \in TxIds, key \in Keys :
        pc[t] = "open"
           => TransactionGet(t, key).val =
                 IF key \in DOMAIN txn[t].writes
                 THEN (IF txn[t].writes[key] = NilStr THEN NotExist
                       ELSE txn[t].writes[key])
                 ELSE Expected(key, txn[t].snapshotVersion)

\* C3: of two write-transactions that were open at the same time and buffered
\* a write (set or delete) to a common key, at most one commits with success.
C3_FirstCommitterWins ==
    \A t \in TxIds, u \in TxIds :
        (t # u /\ Succeeded(t) /\ Succeeded(u) /\ Concurrent(t, u))
            => DOMAIN txn[t].writes \cap DOMAIN txn[u].writes = {}

\* C3 witness: an earlier transaction had committed a key; t and u, both
\* created after that commit and before either of them committed, both read
\* the key and then buffered a write to it; t committed and the commit of u
\* was refused.
C3_Witness ==
    \E t \in TxIds, u \in TxIds, key \in Keys :
        /\ t # u /\ Succeeded(t)
        /\ txn[t].snapshotVersion = txn[u].snapshotVersion
        /\ WritersOf(key, txn[t].snapshotVersion) # {}
        /\ key \in DOMAIN txn[t].reads \cap DOMAIN txn[u].reads
        /\ key \in DOMAIN txn[t].writes \cap DOMAIN txn[u].writes
        /\ ret[u] \in {"ww", "ssi"}

\* C4: no write commit of t succeeds when a transaction u that committed
\* writes during the lifetime of t (after t began, before t committed) wrote
\* a key of t's read set, or read a key that t writes.
C4_RwDependency ==
    \A t \in TxIds, u \in TxIds :
        (/\ t # u /\ Succeeded(t) /\ Succeeded(u)
         /\ txn[t].snapshotVersion < cver[u] /\ cver[u] < cver[t])
            => /\ overlappingKeys(txn[t].reads, txn[u].writes) = {}
               /\ overlappingKeys(txn[u].reads, txn[t].writes) = {}

\* C5: two write-transactions that were open at the same time and each passed
\* to Get a key the other one writes never both commit with success.
C5_NoWriteSkew ==
    \A t \in TxIds, u \in TxIds :
        (t # u /\ Succeeded(t) /\ Succeeded(u) /\ Concurrent(t, u))
            => ~ /\ gets[t] \cap DOMAIN txn[u].writes # {}
                 /\ gets[u] \cap DOMAIN txn[t].writes # {}

\* C6: maxCommitVersion starts at 0 and never decreases; it changes only when
\* a commit with writes is published, by exactly 1, and that commit gets the
\* new value as its version; the versions handed out are 1, 2, 3, ... with
\* no version given twice.
C6_VersionsInOrder ==
    /\ \A t \in TxIds, u \in TxIds :
          (t # u /\ Succeeded(t)) => cver[t] # cver[u]
    /\ {cver[t] : t \in {u \in TxIds : Succeeded(u)}} = 1..maxCommitVersion

C6_VersionStep ==
    /\ maxCommitVersion' \in {maxCommitVersion, maxCommitVersion + 1}
    /\ \A t \in TxIds :
          (ret[t] = "" /\ ret'[t] = "ok")
             => IF DOMAIN txn[t].writes # {}
                THEN /\ maxCommitVersion' = maxCommitVersion + 1
                     /\ cver'[t] = maxCommitVersion'
                ELSE maxCommitVersion' = maxCommitVersion
    /\ maxCommitVersion' # maxCommitVersion
          => \E t \in TxIds : ret[t] = "" /\ ret'[t] = "ok"

C6_CommitVersion ==
    (maxCommitVersion = 0) /\ []C6_VersionsInOrder /\ [][C6_VersionStep]_vars

\* C6 witness: two write commits have succeeded, with versions 1 and 2.
C6_Witness ==
    \E t \in TxIds, u \in TxIds : cver[t] = 1 /\ cver[u] = 2

\* The version of the entry a read of key at snapshot version ver gets from
\* kvs, 0 if it gets none.
ObservedVersion(key, ver) ==
    IF key \in DOMAIN kvs /\ Fetch(kvs[key], ver).found
    THEN Version(Fetch(kvs[key], ver).v) ELSE 0

\* The snapshot versions of the handles in use.
HandleVersions ==
    {snap[s].snapshotVersion : s \in {x \in SnapIds : spc[x] = "open"}}
    \cup {txn[t].snapshotVersion : t \in {x \in TxIds : pc[x] = "open"}}

\* C7: the keys written by the commit with version c all have an entry of
\* version c when it is published, and a handle with snapshot version ver
\* sees the commit on every key it wrote if c <= ver (the entry it reads has
\* a version >= c) and on none if c > ver.
C7_AtomicVisibility ==
    /\ (mu = NoHolder /\ hist # <<>>)
          => \A key \in DOMAIN hist[Len(hist)] :
                ObservedVersion(key, MaxInt64) = Len(hist)
    /\ \A c \in 1..Len(hist), ver \in HandleVersions :
          IF c <= ver
          THEN \A key \in DOMAIN hist[c] : ObservedVersion(key, ver) >= c
          ELSE \A key \in DOMAIN hist[c] : ObservedVersion(key, ver) < c

\* The last commit that wrote key, 0 if none.
LastWriter(key) ==
    IF WritersOf(key, Len(hist)) = {} THEN 0 ELSE Max(WritersOf(key, Len(hist)))

\* C8: once a commit that set key to V (deleted key) has succeeded, and as
\* long as no later commit has written key, every handle created after that
\* commit reads V (NotExist) for key.
C8_RoundTrip ==
    \A key \in Keys :
        LastWriter(key) > 0 =>
            /\ \A s \in SnapIds :
                  (spc[s] = "open" /\ snap[s].snapshotVersion >= LastWriter(key))
                     => SnapshotGet(s, key) = Expected(key, LastWriter(key))
            /\ \A t \in TxIds :
                  (/\ pc[t] = "open"
                   /\ txn[t].snapshotVersion >= LastWriter(key)
                   /\ key \notin DOMAIN txn[t].writes)
                     => TransactionGet(t, key).val = Expected(key, LastWriter(key))

\* C9: rollback, a read-only commit and a refused commit leave kvs and
\* maxCommitVersion as they were: the committed state changes only in steps
\* of a commit that has passed its checks with at least one buffered write.
C9_Frame ==
    /\ \A t \in TxIds :
          (/\ ret[t] = ""
           /\ \/ ret'[t] \in {"rollback", "ssi", "ww", "invalid"}
              \/ ret'[t] = "ok" /\ DOMAIN txn[t].writes = {})
             => kvs' = kvs /\ maxCommitVersion' = maxCommitVersion
    /\ (kvs' # kvs \/ maxCommitVersion' # maxCommitVersion)
          => \E t \in TxIds :
                /\ mu = t /\ pc[t] = "apply"
                /\ DOMAIN txn[t].writes # {}

C9_EndWithoutEffect == [][C9_Frame]_vars

\* C9 witness: a commit was refused for a conflict on one key while it also
\* had a buffered write for a key that no commit has written, and that key
\* still has no history.
C9_Witness ==
    \E u \in TxIds, key \in Keys :
        /\ pc[u] = "closed" /\ ret[u] \in {"ww", "ssi"}
        /\ key \in DOMAIN txn[u].writes
        /\ key \notin DOMAIN kvs
        /\ maxCommitVersion > 0

\* C10: when Commit returns for an open transaction, whatever commit()
\* returned, the transaction is in neither liveTxes nor the keys of
\* concurrentMap, its db is cleared, and committed is set iff commit()
\* returned success.
C10_Closed ==
    \A t \in TxIds :
        (pc[t] = "stored" /\ pc'[t] = "closed" /\ ret[t] # "rollback")
           => /\ t \notin LiveSet'
              /\ t \notin DOMAIN concurrentMap'
              /\ ~txn'[t].db
              /\ txn'[t].committed <=> (ret[t] = "ok")
              /\ ret[t] \in {"ok", "ssi", "ww"}

C10_CommitCloses == [][C10_Closed]_vars

\* C11: once Commit or Rollback has returned for a transaction, no call on it
\* buffers a write or ends the process with a panic, and a Commit or Rollback
\* on it returns os.ErrInvalid.
C11_Terminal ==
    \A t \in TxIds :
        pc[t] = "closed"
           => /\ txn'[t].writes = txn[t].writes
              /\ fatal' = fatal
              /\ ret'[t] # ret[t] => ret'[t] = "invalid"

C11_TerminalUnusable == [][C11_Terminal]_vars

\* The keys of [begin, end) for which the committed history has a value (no
\* tombstone) at snapshot version ver.
VisibleAt(ver, begin, end) ==
    {k \in Keys : ~outOfRange(k, begin, end) /\ Expected(k, ver) # NotExist}

\* The <<key, value>> pairs of the keys of the sequence q at version ver.
RECURSIVE PairsAt(_, _)
PairsAt(q, ver) ==
    IF q = <<>> THEN <<>>
    ELSE <<<<Head(q), Expected(Head(q), ver)>>>> \o PairsAt(Tail(q), ver)

\* C12: on a snapshot that has not been discarded, Ascend over a valid range
\* yields exactly the keys of the range that have a value at the snapshot
\* version, with that value, in ascending order, and Descend the same keys in
\* descending order; tombstoned keys and keys committed later are skipped and
\* the error slot stays empty.
C12_SnapshotIteration ==
    \A s \in SnapIds, b \in RangeBounds, e \in RangeBounds :
        (spc[s] = "open" /\ ~invalidRange(b, e))
           => LET want == PairsAt(SortStrings(
                              VisibleAt(snap[s].snapshotVersion, b, e)),
                              snap[s].snapshotVersion)
              IN  /\ SnapshotAscend(s, b, e) = [yield |-> want, err |-> ""]
                  /\ SnapshotDescend(s, b, e) =
                        [yield |-> Reverse(want), err |-> ""]

\* What t must read for key: its own buffered write if it has one, else the
\* committed value at its snapshot version.
TxExpected(t, key) ==
    IF key \in DOMAIN txn[t].writes
    THEN (IF txn[t].writes[key] = NilStr THEN NotExist ELSE txn[t].writes[key])
    ELSE Expected(key, txn[t].snapshotVersion)

\* The keys of [begin, end) that t must see.
TxVisible(t, begin, end) ==
    {k \in Keys : ~outOfRange(k, begin, end) /\ TxExpected(t, k) # NotExist}

RECURSIVE TxPairs(_, _)
TxPairs(t, q) ==
    IF q = <<>> THEN <<>>
    ELSE <<<<Head(q), TxExpected(t, Head(q))>>>> \o TxPairs(t, Tail(q))

\* C13: on an open transaction, Ascend over a valid range yields exactly the
\* keys of the range that have a value at its snapshot version or that it has
\* set, without those it has deleted, each with the value its Get returns, in
\* ascending order, and Descend the same in descending order; keys committed
\* by others since it began do not appear, and the error slot stays empty.
C13_TransactionIteration ==
    \A t \in TxIds, b \in RangeBounds, e \in RangeBounds :
        (pc[t] = "open" /\ ~invalidRange(b, e))
           => LET want == TxPairs(t, SortStrings(TxVisible(t, b, e)))
              IN  /\ TransactionAscend(t, b, e).yield = want
                  /\ TransactionAscend(t, b, e).err = ""
                  /\ TransactionDescend(t, b, e).yield = Reverse(want)
                  /\ TransactionDescend(t, b, e).err = ""
                  /\ \A i \in 1..Len(want) :
                        TransactionGet(t, want[i][1]).val = want[i][2]

\* k lies in [begin, end), an empty bound being no bound.
InRange(k, begin, end) ==
    /\ begin = "" \/ Rank(k) >= Rank(begin)
    /\ end = "" \/ Rank(k) < Rank(end)

\* The keys of the pairs of the sequence q.
KeysOf(q) == {q[i][1] : i \in 1..Len(q)}

\* C14, for one result r of Ascend or Descend over (b, e), found being the
\* keys that Get finds in the handle: with both bounds set and b > e nothing
\* is yielded and the error slot holds os.ErrInvalid; any other range is no
\* invalid input, yields only keys of [b, e), and, if the iteration ran to
\* its end without error, all the keys of [b, e) that Get finds.
RangeResultOk(r, b, e, found) ==
    IF b # "" /\ e # "" /\ Rank(b) > Rank(e)
    THEN r.yield = <<>> /\ r.err = "invalid"
    ELSE /\ r.err # "invalid"
         /\ \A k \in KeysOf(r.yield) : InRange(k, b, e)
         /\ r.err = "" => KeysOf(r.yield) = {k \in found : InRange(k, b, e)}

\* The keys that keys() of t collects from t.reads, t.writes and db.kvs.
Candidates(t) == DOMAIN txn[t].reads \cup DOMAIN txn[t].writes \cup DOMAIN kvs

\* C14, for the iterator it that a call of Ascend or Descend over (b, e) on
\* t has set up: with both bounds set and b > e it is at its end with
\* os.ErrInvalid in the error slot and no key to get; any other range leaves
\* the slot empty and will get the keys of [b, e), and no other.
RangeStartOk(it, t, b, e) ==
    IF b # "" /\ e # "" /\ Rank(b) > Rank(e)
    THEN it.st = "end" /\ it.keys = <<>> /\ it.err = "invalid"
    ELSE /\ it.err = ""
         /\ ElemSet(it.keys) = {k \in Candidates(t) : InRange(k, b, e)}
         /\ it.st = "end" <=> it.keys = <<>>

\* C14 in every state: Ascend and Descend of open snapshots and transactions,
\* run to their end, treat the range bounds as in RangeResultOk; a range with
\* an empty bound is never refused.
C14_Results ==
    \A b \in RangeBounds, e \in RangeBounds :
        /\ \A s \in SnapIds :
              spc[s] = "open" =>
                 LET found == {k \in Keys : SnapshotGet(s, k) # NotExist}
                 IN  /\ RangeResultOk(SnapshotAscend(s, b, e), b, e, found)
                     /\ RangeResultOk(SnapshotDescend(s, b, e), b, e, found)
        /\ \A t \in TxIds :
              pc[t] = "open" =>
                 LET found == {k \in Keys : TransactionGet(t, k).val # NotExist}
                 IN  /\ RangeResultOk(TransactionAscend(t, b, e), b, e, found)
                     /\ RangeResultOk(TransactionDescend(t, b, e), b, e, found)

\* C14 in every step: a call of Ascend or Descend sets its iterator up as in
\* RangeStartOk, and an iterator that was refused yields nothing.
C14_Start ==
    \A t \in TxIds :
        /\ (nops' # nops /\ txn' = txn)
              => \A b \in RangeBounds, e \in RangeBounds :
                    (Ascend(t, b, e) \/ Descend(t, b, e))
                       => RangeStartOk(iter'[t], t, b, e)
        /\ iter[t].err = "invalid" => iter[t].keys = <<>>

\* C14: for snapshots and transactions, Ascend and Descend with both bounds
\* set and begin > end yield nothing and put os.ErrInvalid into the error
\* slot; an empty begin or end is no bound, and a range with an empty bound
\* is never refused.
C14_RangeBounds == []C14_Results /\ [][C14_Start]_vars

\* C14 witness: an open transaction whose iterator has passed both keys to
\* Get and is at its end without error, and an open snapshot, both see k1
\* and k2; the range (k2, k1) is refused, ("", k2) and (k2, "") yield one key
\* each and (k1, k1) yields none without error.
C14_Witness ==
    \E t \in TxIds, s \in SnapIds :
        /\ pc[t] = "open" /\ spc[s] = "open"
        /\ gets[t] = {"k1", "k2"}
        /\ iter[t] = [st |-> "end", keys |-> <<>>, err |-> ""]
        /\ TransactionAscend(t, "k2", "k1").err = "invalid"
        /\ KeysOf(TransactionAscend(t, "", "k2").yield) = {"k1"}
        /\ KeysOf(TransactionDescend(t, "k2", "").yield) = {"k2"}
        /\ TransactionAscend(t, "k1", "k1") =
              [yield |-> <<>>, err |-> "", reads |-> txn[t].reads]
        /\ SnapshotDescend(s, "k2", "k1").err = "invalid"
        /\ KeysOf(SnapshotAscend(s, "k1", "").yield) = {"k1", "k2"}

\* C15: when a commit with writes is published while its transaction is the
\* only one that has not ended and no snapshot is in use, the history of
\* every key it wrote has exactly one entry.
C15_OneEntry ==
    \A t \in TxIds :
        (/\ pc[t] = "apply" /\ pc'[t] = "deferClose" /\ ret'[t] = "ok"
         /\ \A u \in TxIds \ {t} : pc[u] \in {"none", "closed"}
         /\ \A s \in SnapIds : spc[s] # "open")
           => \A key \in DOMAIN txn[t].writes :
                 key \in DOMAIN kvs' /\ Len(kvs'[key]) = 1

C15_CompactToOne == [][C15_OneEntry]_vars

\* C16: when the apply loop of a commit comes to a buffered delete of a key
\* that has no history, it leaves kvs as it is: no history is created.
C16_NoHistory ==
    \A t \in TxIds, key \in Keys :
        (/\ pc[t] = "apply" /\ mu = t
         /\ key \in cm.todo /\ key \notin cm'.todo
         /\ txn[t].writes[key] = NilStr
         /\ key \notin DOMAIN kvs)
           => kvs' = kvs

C16_DeleteMissing == [][C16_NoHistory]_vars

\* The transaction whose creation this step completes, if any.
Created(t) == pc[t] = "creating" /\ pc'[t] = "open"

\* C17: a new transaction gets as peers the transactions live at its
\* creation (all those live when NewTransaction returns, and none that was
\* not live when it began) and is a peer of each of them; until a
\* transaction has ended, its peer list loses no member (a peer that ends
\* stays) and grows only by the transaction being created.  So at its commit
\* the list holds exactly the transactions that were ever live together with
\* it.
C17_Peers ==
    /\ \A t \in TxIds :
          Created(t)
             => /\ t \in DOMAIN concurrentMap'
                /\ {u \in TxIds : Live(u)} \subseteq ElemSet(concurrentMap'[t])
                /\ ElemSet(concurrentMap'[t]) \subseteq nt.live
                /\ \A u \in TxIds :
                      Live(u) => /\ u \in DOMAIN concurrentMap'
                                 /\ t \in ElemSet(concurrentMap'[u])
    /\ \A p \in TxIds :
          (Live(p) /\ pc'[p] # "closed" /\ p \in DOMAIN concurrentMap)
             => /\ p \in DOMAIN concurrentMap'
                /\ ElemSet(concurrentMap[p]) \subseteq ElemSet(concurrentMap'[p])
                /\ ElemSet(concurrentMap'[p]) \ ElemSet(concurrentMap[p])
                      \subseteq {nt.t} \ {Nil}

C17_PeerSymmetry == [][C17_Peers]_vars

\* C18: a snapshot is a member of liveSnaps from NewSnapshot until Discard,
\* and the minVersion that a commit compacts with is <= the snapshot version
\* of every snapshot in use.
C18_SnapshotsLive ==
    \A s \in SnapIds :
        spc[s] = "open"
           => /\ s \in liveSnaps
              /\ (\E t \in TxIds : pc[t] = "apply")
                    => cm.minVersion <= snap[s].snapshotVersion

\* C19: while a thread holds the mutex, in NewTransaction or in commit(), no
\* step of another thread changes liveTxes (the slice and its array),
\* liveSnaps or concurrentMap; and between the load and the store of
\* liveTxes by one closeTransaction no other thread changes liveTxes or the
\* array that was loaded: no two threads are within these structures at
\* once.
C19_Exclusive ==
    /\ (/\ mu # NoHolder /\ mu' = mu
        /\ pc'[mu] = pc[mu] /\ nt' = nt /\ cm' = cm)
          => UNCHANGED <<liveTxes, heap, liveSnaps, concurrentMap>>
    /\ \A t \in TxIds :
          (pc[t] = "closing" /\ pc'[t] = "closing" /\ seen'[t] = seen[t])
             => /\ liveTxes' = liveTxes
                /\ seen[t].ptr # 0 => heap'[seen[t].ptr] = heap[seen[t].ptr]

C19_MutexDiscipline == [][C19_Exclusive]_vars

\* C20: a commit is refused (rw-dependency or ww-conflict) only if some other
\* transaction published a commit with writes after the refused transaction
\* was created.
C20_Refused ==
    \A t \in TxIds :
        (ret[t] = "" /\ ret'[t] \in {"ssi", "ww"})
           => \E u \in TxIds \ {t} : cver[u] > txn[t].snapshotVersion

C20_NoSpuriousAbort == [][C20_Refused]_vars

\* C21: whenever no commit holds the mutex, every history stored in kvs has
\* at least one entry, its versions are strictly increasing, and every
\* version is > 0 and <= maxCommitVersion.
C21_WellFormed ==
    mu = NoHolder
       => \A key \in DOMAIN kvs :
             /\ Len(kvs[key]) >= 1
             /\ \A i \in 1..(Len(kvs[key]) - 1) :
                   Version(kvs[key][i]) < Version(kvs[key][i + 1])
             /\ \A i \in 1..Len(kvs[key]) :
                   /\ Version(kvs[key][i]) > 0
                   /\ Version(kvs[key][i]) <= maxCommitVersion

\* C21 witness: two commits have written the same key and both entries are
\* in its history, while another key has a history of one entry.
C21_Witness ==
    /\ mu = NoHolder
    /\ \E k1 \in DOMAIN kvs, k2 \in DOMAIN kvs :
          Len(kvs[k1]) = 2 /\ Len(kvs[k2]) = 1

\* What a read at version v gets from the history mv; the empty sequence is
\* the removed history.
Visible(mv, v) ==
    IF mv = <<>> THEN NotExist
    ELSE LET f == Fetch(mv, v)
         IN  IF f.found /\ ~IsDeleted(f.v) THEN Data(f.v) ELSE NotExist

\* The history of key in the map m, empty if it has none.
HistoryOf(m, key) == IF key \in DOMAIN m THEN m[key] ELSE <<>>

\* C22: when a well-formed history is replaced by Compact of it with
\* minVersion m, every read at a version v >= m gets the same result (the
\* payload, or NotExist for a tombstone or no entry) after as before; a
\* removed history reads as NotExist.
C22_Preserved ==
    \A key \in cm.todo \ cm'.todo, v \in MinVersions :
        (mu = NoHolder /\ key \in DOMAIN kvs /\ v >= cm.minVersion)
           => Visible(HistoryOf(kvs', key), v) = Visible(kvs[key], v)

C22_CompactPreservesReads == [][C22_Preserved]_vars

\* C22 witness: Compact has acted with a minVersion that lies at or above
\* the oldest entry left and below a newer one, or has removed the history.
C22_Witness ==
    /\ cm.todo = {} /\ cm.minVersion > 0 /\ \A t \in TxIds : pc[t] = "none"
    /\ \E key \in DOMAIN kvs :
          /\ Len(kvs[key]) = 2
          /\ Version(kvs[key][1]) < cm.minVersion
          /\ Version(kvs[key][2]) > cm.minVersion
          /\ IsDeleted(kvs[key][1])

\* The entries of mv that are left when all entries strictly older than the
\* newest entry with a version <= m are dropped.
Remaining(mv, m) ==
    LET old == {i \in 1..Len(mv) : Version(mv[i]) <= m}
    IN  IF old = {} THEN mv ELSE SubSeq(mv, Max(old), Len(mv))

\* C23: when Compact is given a history and a minVersion m such that the only
\* entry left after dropping the obsolete ones is a tombstone older than m,
\* it returns nil and no history is left under the key; when nothing is to
\* be dropped otherwise, the history stays as it is.
C23_Removal ==
    \A key \in cm.todo \ cm'.todo :
        (mu = NoHolder /\ key \in DOMAIN kvs)
           => LET rem == Remaining(kvs[key], cm.minVersion)
              IN  IF /\ Len(rem) = 1 /\ IsDeleted(rem[1])
                     /\ Version(rem[1]) < cm.minVersion
                  THEN /\ Compact(kvs[key], cm.minVersion) = <<>>
                       /\ key \notin DOMAIN kvs'
                  ELSE rem = kvs[key] => HistoryOf(kvs', key) = kvs[key]

C23_CompactSignalsRemoval == [][C23_Removal]_vars

\* C24: the commit of an open transaction without buffered writes returns
\* success and marks it committed, whatever it has read and whatever its
\* peers have committed; and a commit is refused for an rw-dependency only
\* because of a committed peer that has buffered writes.
C24_FastPath ==
    \A t \in TxIds :
        /\ (pc[t] = "open" /\ pc'[t] # "open" /\ ret'[t] # "rollback"
            /\ DOMAIN txn[t].writes = {})
              => /\ ret'[t] = "ok"
                 /\ txn'[t].committed
                 /\ kvs' = kvs /\ maxCommitVersion' = maxCommitVersion
        /\ (ret[t] = "" /\ ret'[t] = "ssi")
              => \E v \in ElemSet(PeersOf(t)) \ {Nil} :
                    /\ txn[v].committed /\ DOMAIN txn[v].writes # {}
                    /\ \/ overlappingKeys(txn[t].reads, txn[v].writes) # {}
                       \/ overlappingKeys(txn[v].reads, txn[t].writes) # {}

C24_ReadOnlyCommit == [][C24_FastPath]_vars

\* C24 witness: a transaction p without writes has committed with success
\* although a committed peer v of it wrote a key it had read; and t, which
\* has the committed p as a peer and buffered a write to a key that p read,
\* has committed its write with success.
C24_Witness ==
    \E p \in TxIds, v \in TxIds, t \in TxIds :
        /\ pc[p] = "deferClose" /\ ret[p] = "ok" /\ txn[p].committed
        /\ DOMAIN txn[p].writes = {}
        /\ v \in ElemSet(PeersOf(p)) /\ txn[v].committed
        /\ overlappingKeys(txn[p].reads, txn[v].writes) # {}
        /\ t # p /\ p \in ElemSet(PeersOf(t))
        /\ overlappingKeys(txn[p].reads, txn[t].writes) # {}
        /\ Succeeded(t)

\* The panics of the internal checks of NewValue and Append.
CheckPanics ==
    {NewValuePanic(0), AppendPanic(<<NewValue(2), NewValue(1)>>, NewValue(3)),
     AppendPanic(<<NewValue(1)>>, NewValue(1))}

\* C25: the process never ends in one of the panics of NewValue and Append,
\* and no iteration of an apply loop that is still to run would raise one:
\* commit() never builds a Value with a version <= 0 and never appends a
\* version that is not above the largest version of the history.
C25_NoPanic ==
    /\ fatal \notin CheckPanics
    /\ \A t \in TxIds, key \in Keys :
          (pc[t] = "apply" /\ mu = t /\ key \in cm.todo)
             => /\ cm.newCommitVersion > 0
                /\ applyPanic(t, key) = ""
                /\ key \in DOMAIN kvs
                      => cm.newCommitVersion > Version(kvs[key][Len(kvs[key])])

\* C25 witness: a second commit is about to append to the history that an
\* earlier commit created.
C25_Witness ==
    \E t \in TxIds, key \in Keys :
        /\ pc[t] = "apply" /\ mu = t /\ key \in cm.todo
        /\ key \in DOMAIN kvs
        /\ cm.newCommitVersion = 2

====
